---- MODULE Spec2Model ----
(***************************************************************************)
(* Aternos Guard: the connection lifecycle controller (startBot, stopBot,  *)
(* restartBot, createBot, queueReconnect, keep-alive and health timers),   *)
(* the credential and session store with its user-management handlers,    *)
(* the gated control and settings routes with the realtime channel, and    *)
(* the bounded event log.                                                  *)
(*                                                                         *)
(* Node runs every handler to completion on one thread, so each handler    *)
(* or timer callback is one atomic action.  A handler is written as a      *)
(* function from the record of the variables it works on to the record it  *)
(* leaves behind, composed in the order of the source's statements.        *)
(* broadcast() and console output leave no state behind and are not        *)
(* modelled; addLog's buffer is the variable logs, driven by AppendLog.    *)
(* A user is its id, name, role and token: the createdAt and lastLoginAt   *)
(* stamps are written for display and read by no handler.  saveConfig      *)
(* writes the file that only loadConfig, at boot, reads.                   *)
(***************************************************************************)
EXTENDS Integers, Sequences, FiniteSets, TLC

VARIABLES
    \* ---- connection record (module-level lets of the controller)
    bot,                 \* index into clients of the held instance, or NULL
    botStatus,           \* "stopped" | "connecting" | "online" | "error"
    serverStatus,        \* "unknown" | "online" | "offline"
    reconnectAttempts,
    lastPing,            \* time of the last pulse / keep-alive, or NULL
    lastBotEventAt,
    botStartTime,        \* time of the first login since Start, or NULL
    isRunning,           \* desired state
    pingTimer,           \* TRUE while the keep-alive interval is armed
    reconnectTimer,      \* due time of the pending reconnect timeout, or NULL
    reconnectTimeouts,   \* timeouts queueReconnect armed that have neither
                         \* run nor been cleared
    healthTimer,         \* TRUE while the health interval is armed
    keepAlivePulseCount,
    \* ---- environment of the controller
    clients,             \* every protocol-client instance ever created
    startTimers,         \* due times of pending setTimeout(startBot) callbacks
    now,                 \* Date.now()
    result,              \* what the step just taken was: the control call's
                         \* answer, a reconnect attempt, or NoResult
    sinceStop,           \* history: "stopped" from a successful Stop call until
                         \* the next Start or Restart request
    \* ---- credential and session store
    users,               \* config.users
    sessions,            \* the sessions Map: handle -> [userId, expiresAt]
    nextId,              \* next fresh user id (crypto.randomUUID)
    nextHandle,          \* next fresh session handle (crypto.randomBytes)
    raw,                 \* the persisted user list read at boot
    booted,              \* FALSE until loadConfig has run
    \* ---- settings and realtime channel
    config,              \* the connection settings of the config record
    sockets,             \* every realtime connection ever accepted by wss
    \* ---- event log
    logs,                \* the log buffer
    logSeq,              \* number of entries ever appended
    logsResp             \* body of the last GET /api/logs answer

lifeVars == <<bot, botStatus, serverStatus, reconnectAttempts, lastPing,
              lastBotEventAt, botStartTime, isRunning, pingTimer,
              reconnectTimer, reconnectTimeouts, healthTimer,
              keepAlivePulseCount, clients, startTimers>>
ctlVars == <<result, sinceStop>>
authVars == <<users, sessions, nextId, nextHandle>>
bootVars == <<raw, booted>>
apiVars == <<config, sockets>>
logVars == <<logs, logSeq, logsResp>>
vars == <<lifeVars, ctlVars, now, authVars, bootVars, apiVars, logVars>>

\* ------------------------------------------------------------------------
\* Program constants
\* ------------------------------------------------------------------------
NULL == -1

\* The clock counts units of half a second, so that every delay of the
\* source is a whole number of units and a session's expiry fits TLC's
\* integers.  Ms(n) is n milliseconds on that clock.
Unit == 5 * 100
Ms(n) == n \div Unit

RECONNECT_DELAY == Ms(15000)
PING_INTERVAL == Ms(45000)
STALE_FLOOR == Ms(90000)
RESTART_DELAY == Ms(2000)
AUTOSTART_DELAY == Ms(1500)
PING_LOG_EVERY == 5
SESSION_TTL_MS == Ms(14 * 24 * 60 * 60 * 1000)
DEFAULT_PORT == 39695

\* The connection settings of DEFAULT_CONFIG.
DEFAULT_CONFIG ==
    [host |-> "yosef2903.aternos.me", port |-> DEFAULT_PORT,
     username |-> "AternosGuard", reconnectDelay |-> RECONNECT_DELAY,
     pingInterval |-> PING_INTERVAL, version |-> "1.20.1"]
MAX_LOGS == 500
DEFAULT_LIMIT == 100

\* ------------------------------------------------------------------------
\* Bounds of the model
\* ------------------------------------------------------------------------
MaxClients == 2        \* protocol-client instances created in one run
MaxAttempts == 2       \* cap on reconnectAttempts
MaxPulses == 1         \* cap on keepAlivePulseCount
MaxStartTimers == 2    \* pending delayed startBot callbacks
MaxTicks == 2          \* steps the clock takes in one run

Max(a, b) == IF a >= b THEN a ELSE b
Min(a, b) == IF a <= b THEN a ELSE b

RemoveAt(s, i) == SubSeq(s, 1, i - 1) \o SubSeq(s, i + 1, Len(s))

\* ------------------------------------------------------------------------
\* Connection lifecycle controller
\* ------------------------------------------------------------------------

\* The connection record as one value, with the clock the handlers read.
L == [bot |-> bot, botStatus |-> botStatus, serverStatus |-> serverStatus,
      reconnectAttempts |-> reconnectAttempts, lastPing |-> lastPing,
      lastBotEventAt |-> lastBotEventAt, botStartTime |-> botStartTime,
      isRunning |-> isRunning, pingTimer |-> pingTimer,
      reconnectTimer |-> reconnectTimer,
      reconnectTimeouts |-> reconnectTimeouts, healthTimer |-> healthTimer,
      keepAlivePulseCount |-> keepAlivePulseCount, clients |-> clients,
      startTimers |-> startTimers]

SetL(s) ==
    /\ bot' = s.bot
    /\ botStatus' = s.botStatus
    /\ serverStatus' = s.serverStatus
    /\ reconnectAttempts' = s.reconnectAttempts
    /\ lastPing' = s.lastPing
    /\ lastBotEventAt' = s.lastBotEventAt
    /\ botStartTime' = s.botStartTime
    /\ isRunning' = s.isRunning
    /\ pingTimer' = s.pingTimer
    /\ reconnectTimer' = s.reconnectTimer
    /\ reconnectTimeouts' = s.reconnectTimeouts
    /\ healthTimer' = s.healthTimer
    /\ keepAlivePulseCount' = s.keepAlivePulseCount
    /\ clients' = s.clients
    /\ startTimers' = s.startTimers

\* A protocol-client instance as mineflayer.createBot returns it.
\* state: "connecting" until the login packet, "play" after it (bot.entity is
\* set from then on), "closed" once the connection has ended.
NewClient == [quit |-> FALSE, listeners |-> TRUE, state |-> "connecting"]

\* markBotActivity that leaves the timestamp alone.
markBotActivity_stale(s) == s

markBotActivity(s) == [s EXCEPT !.lastBotEventAt = now]

clearReconnectTimer(s) ==
    IF s.reconnectTimer # NULL
    THEN [s EXCEPT !.reconnectTimer = NULL, !.reconnectTimeouts = @ - 1]
    ELSE s

\* stopPingTimer that leaves the interval armed.
stopPingTimer_keepsInterval(s) == s

stopPingTimer(s) == [s EXCEPT !.pingTimer = FALSE]

\* stopHealthTimer that leaves the interval armed.
stopHealthTimer_keepsInterval(s) == s

stopHealthTimer(s) == [s EXCEPT !.healthTimer = FALSE]

\* quitBot that leaves the instance's listeners attached.
quitBot_keepsListeners(s) ==
    IF s.bot = NULL THEN s
    ELSE [s EXCEPT !.clients[s.bot] =
                       [quit |-> TRUE, listeners |-> TRUE, state |-> "closed"],
                   !.bot = NULL]

quitBot(s) ==
    IF s.bot = NULL THEN s
    ELSE [s EXCEPT !.clients[s.bot] =
                       [quit |-> TRUE, listeners |-> FALSE, state |-> "closed"],
                   !.bot = NULL]

\* queueReconnect without its "a timer is pending" early return.
queueReconnect_noGuard(s) ==
    IF ~s.isRunning THEN s
    ELSE [s EXCEPT !.reconnectAttempts = @ + 1,
                   !.botStatus = "connecting",
                   !.reconnectTimer = now + config.reconnectDelay,
                   !.reconnectTimeouts = @ + 1]

queueReconnect(s) ==
    IF ~s.isRunning THEN s
    ELSE IF s.reconnectTimer # NULL THEN s
    ELSE [s EXCEPT !.reconnectAttempts = @ + 1,
                   !.botStatus = "connecting",
                   !.reconnectTimer = now + config.reconnectDelay,
                   !.reconnectTimeouts = @ + 1]

startPingTimer(s) == [stopPingTimer(s) EXCEPT !.pingTimer = TRUE]

\* startHealthTimer that clears the interval and arms none.
startHealthTimer_notArmed(s) == stopHealthTimer(s)

startHealthTimer(s) == [stopHealthTimer(s) EXCEPT !.healthTimer = TRUE]

\* createBot that forgets quitBot("refresh instance").
createBot_noQuit(s, ok) ==
    IF ~s.isRunning THEN s
    ELSE LET s1 == stopPingTimer(clearReconnectTimer(s))
             s2 == markBotActivity([s1 EXCEPT !.botStatus = "connecting",
                                              !.serverStatus = "unknown"])
         IN IF ok
            THEN [s2 EXCEPT !.clients = Append(@, NewClient),
                            !.bot = Len(s2.clients) + 1]
            ELSE queueReconnect(s2)

\* ok: whether mineflayer.createBot returned an instance (FALSE: it threw).
createBot(s, ok) ==
    IF ~s.isRunning THEN s
    ELSE LET s1 == quitBot(stopPingTimer(clearReconnectTimer(s)))
             s2 == markBotActivity([s1 EXCEPT !.botStatus = "connecting",
                                              !.serverStatus = "unknown"])
         IN IF ok
            THEN [s2 EXCEPT !.clients = Append(@, NewClient),
                            !.bot = Len(s2.clients) + 1]
            ELSE queueReconnect(s2)

\* startBot without its "already running" early return.
startBot_noGuard(s, ok) ==
    LET s1 == markBotActivity([s EXCEPT !.isRunning = TRUE,
                                        !.botStartTime = NULL,
                                        !.reconnectAttempts = 0,
                                        !.keepAlivePulseCount = 0])
    IN createBot(startHealthTimer(s1), ok)

startBot(s, ok) ==
    IF s.isRunning THEN s
    ELSE LET s1 == markBotActivity([s EXCEPT !.isRunning = TRUE,
                                             !.botStartTime = NULL,
                                             !.reconnectAttempts = 0,
                                             !.keepAlivePulseCount = 0])
         IN createBot(startHealthTimer(s1), ok)

startBotResult(s) == [op |-> "start", success |-> ~s.isRunning]

\* stopBot that forgets clearReconnectTimer().
stopBot_keepsReconnect(s) ==
    IF ~s.isRunning THEN s
    ELSE LET s1 == quitBot(stopHealthTimer(stopPingTimer(
                       [s EXCEPT !.isRunning = FALSE])))
         IN markBotActivity([s1 EXCEPT !.botStatus = "stopped",
                                       !.serverStatus = "unknown"])

stopBot(s) ==
    IF ~s.isRunning THEN s
    ELSE LET s1 == quitBot(stopHealthTimer(stopPingTimer(
                       clearReconnectTimer([s EXCEPT !.isRunning = FALSE]))))
         IN markBotActivity([s1 EXCEPT !.botStatus = "stopped",
                                       !.serverStatus = "unknown"])

stopBotResult(s) == [op |-> "stop", success |-> s.isRunning]

\* restartBot that schedules the Start without stopping first.
restartBot_noStop(s) ==
    [s EXCEPT !.startTimers = Append(@, now + RESTART_DELAY)]

restartBot(s) ==
    [stopBot(s) EXCEPT !.startTimers = Append(@, now + RESTART_DELAY)]

restartBotResult(s) == [op |-> "restart", success |-> TRUE]

NoResult == [op |-> "none", success |-> FALSE]

\* The run stays inside the bounds of the model.
Within(s) ==
    /\ Len(s.clients) <= MaxClients
    /\ s.reconnectAttempts <= MaxAttempts
    /\ Len(s.startTimers) <= MaxStartTimers

\* The controller's handlers touch neither the stores nor the log buffer.
LifeFrame == UNCHANGED <<authVars, bootVars, apiVars, logVars>>

\* startBot(actor), from POST /api/start or a realtime "start" message.
StartCall(ok) ==
    /\ Within(startBot(L, ok))
    /\ SetL(startBot(L, ok))
    /\ result' = startBotResult(L)
    /\ sinceStop' = "requested"
    /\ UNCHANGED now
    /\ LifeFrame

\* stopBot(actor), from POST /api/stop or a realtime "stop" message.
StopCall ==
    /\ SetL(stopBot(L))
    /\ result' = stopBotResult(L)
    /\ sinceStop' = IF isRunning THEN "stopped" ELSE sinceStop
    /\ UNCHANGED now
    /\ LifeFrame

\* restartBot(actor), from POST /api/restart or a realtime "restart" message.
RestartCall ==
    /\ Within(restartBot(L))
    /\ SetL(restartBot(L))
    /\ result' = restartBotResult(L)
    /\ sinceStop' = "requested"
    /\ UNCHANGED now
    /\ LifeFrame

\* A setTimeout(() => startBot(actor)) callback runs: Restart's delayed
\* Start, or the autostart scheduled at boot.
StartTimerFire(i, ok) ==
    /\ i \in 1..Len(startTimers)
    /\ now >= startTimers[i]
    /\ LET s == startBot([L EXCEPT !.startTimers = RemoveAt(@, i)], ok)
       IN Within(s) /\ SetL(s)
    /\ result' = NoResult
    /\ UNCHANGED <<sinceStop, now>>
    /\ LifeFrame

\* The reconnect timeout queued by queueReconnect runs.
ReconnectTimerFire(ok) ==
    /\ reconnectTimer # NULL
    /\ now >= reconnectTimer
    /\ LET s1 == [L EXCEPT !.reconnectTimer = NULL,
                            !.reconnectTimeouts = @ - 1]
           s == IF ~s1.isRunning THEN s1 ELSE createBot(s1, ok)
       IN Within(s) /\ SetL(s)
    /\ result' = [op |-> "reconnect", success |-> isRunning]
    /\ UNCHANGED <<sinceStop, now>>
    /\ LifeFrame

staleThreshold == Max(config.pingInterval * 2, STALE_FLOOR)

\* The health sweep that recycles a stale connection without quitBot().
healthSweep_keepsClient(s) ==
    IF ~s.isRunning THEN s
    ELSE IF s.botStatus = "online" /\ now - s.lastBotEventAt > staleThreshold
    THEN queueReconnect([stopPingTimer(s)
                            EXCEPT !.botStatus = "error",
                                   !.serverStatus = "unknown"])
    ELSE IF s.botStatus \in {"error", "connecting"} /\ s.reconnectTimer = NULL
    THEN queueReconnect(s)
    ELSE s

healthSweep(s) ==
    IF ~s.isRunning THEN s
    ELSE IF s.botStatus = "online" /\ now - s.lastBotEventAt > staleThreshold
    THEN queueReconnect([quitBot(stopPingTimer(s))
                            EXCEPT !.botStatus = "error",
                                   !.serverStatus = "unknown"])
    ELSE IF s.botStatus \in {"error", "connecting"} /\ s.reconnectTimer = NULL
    THEN queueReconnect(s)
    ELSE s

\* The health interval's callback runs.
HealthSweep ==
    /\ healthTimer
    /\ Within(healthSweep(L))
    /\ SetL(healthSweep(L))
    /\ result' = NoResult
    /\ UNCHANGED <<sinceStop, now>>
    /\ LifeFrame

\* A keep-alive callback whose failure is taken for a connection error.
pulse_failureIsError(s, ok) ==
    IF ~s.isRunning \/ s.bot = NULL THEN s
    ELSE IF s.clients[s.bot].state # "play" THEN s
    ELSE IF ok
    THEN [markBotActivity(s) EXCEPT !.keepAlivePulseCount = @ + 1,
                                    !.lastPing = now]
    ELSE [s EXCEPT !.botStatus = "error"]

\* ok: whether bot.look / bot.swingArm returned (FALSE: one of them threw).
pulse(s, ok) ==
    IF ~s.isRunning \/ s.bot = NULL THEN s
    ELSE IF s.clients[s.bot].state # "play" THEN s
    ELSE IF ok
    THEN [markBotActivity(s) EXCEPT !.keepAlivePulseCount = @ + 1,
                                    !.lastPing = now]
    ELSE s

\* The levels of the log entries the keep-alive callback appends.
pulseLog(s, ok) ==
    IF ~s.isRunning \/ s.bot = NULL THEN <<>>
    ELSE IF s.clients[s.bot].state # "play" THEN <<>>
    ELSE IF ok
    THEN (IF (s.keepAlivePulseCount + 1) % PING_LOG_EVERY = 0
          THEN <<"PING">> ELSE <<>>)
    ELSE <<"WARNING">>

\* The keep-alive interval's callback runs, in a run that counts no more
\* than cap pulses.
PulseUpTo(ok, cap) ==
    /\ pingTimer
    /\ pulse(L, ok).keepAlivePulseCount <= cap
    /\ Within(pulse(L, ok))
    /\ SetL(pulse(L, ok))
    /\ result' = NoResult
    /\ UNCHANGED <<sinceStop, now>>
    /\ LifeFrame

Pulse(ok) == PulseUpTo(ok, MaxPulses)

\* An instance emits to the handlers createBot attached, while they are
\* attached and the instance has not ended.
Emits(c) ==
    /\ c \in 1..Len(clients)
    /\ clients[c].listeners
    /\ clients[c].state # "closed"

\* The login handler that stamps the session start at every login.
onLogin_restampsStart(s, c) ==
    startPingTimer(markBotActivity(
        [s EXCEPT !.clients[c].state = "play",
                  !.botStatus = "online",
                  !.serverStatus = "online",
                  !.reconnectAttempts = 0,
                  !.botStartTime = now,
                  !.lastPing = now]))

\* The login handler without the reset of the attempt counter.
onLogin_keepsAttempts(s, c) ==
    startPingTimer(markBotActivity(
        [s EXCEPT !.clients[c].state = "play",
                  !.botStatus = "online",
                  !.serverStatus = "online",
                  !.botStartTime = IF @ = NULL THEN now ELSE @,
                  !.lastPing = now]))

onLogin(s, c) ==
    startPingTimer(markBotActivity(
        [s EXCEPT !.clients[c].state = "play",
                  !.botStatus = "online",
                  !.serverStatus = "online",
                  !.reconnectAttempts = 0,
                  !.botStartTime = IF @ = NULL THEN now ELSE @,
                  !.lastPing = now]))

onSpawn(s, c) == markBotActivity(s)

\* The kicked handler without stopPingTimer().
onKicked_keepsPing(s, c) ==
    queueReconnect([markBotActivity(s)
                       EXCEPT !.botStatus = "error",
                              !.serverStatus = "offline"])

onKicked(s, c) ==
    queueReconnect([stopPingTimer(markBotActivity(s))
                       EXCEPT !.botStatus = "error",
                              !.serverStatus = "offline"])

onError(s, c, refused) ==
    queueReconnect([stopPingTimer(markBotActivity(s))
                       EXCEPT !.botStatus = "error",
                              !.serverStatus =
                                  IF refused THEN "offline" ELSE @])

onEnd(s, c) ==
    LET s1 == [stopPingTimer(markBotActivity(s))
                  EXCEPT !.clients[c].state = "closed",
                         !.botStatus =
                             IF s.isRunning THEN "connecting" ELSE "stopped",
                         !.serverStatus = "unknown"]
    IN IF s1.isRunning THEN queueReconnect(s1) ELSE s1

onActivity(s, c) == [markBotActivity(s) EXCEPT !.lastPing = now]

ClientEvent(s) ==
    /\ Within(s)
    /\ SetL(s)
    /\ result' = NoResult
    /\ UNCHANGED <<sinceStop, now>>
    /\ LifeFrame

ClientLogin(c) ==
    Emits(c) /\ clients[c].state = "connecting" /\ ClientEvent(onLogin(L, c))

ClientSpawn(c) ==
    Emits(c) /\ clients[c].state = "play" /\ ClientEvent(onSpawn(L, c))

ClientKicked(c) == Emits(c) /\ ClientEvent(onKicked(L, c))

ClientError(c, refused) == Emits(c) /\ ClientEvent(onError(L, c, refused))

ClientEnd(c) == Emits(c) /\ ClientEvent(onEnd(L, c))

ClientActivity(c) ==
    Emits(c) /\ clients[c].state = "play" /\ ClientEvent(onActivity(L, c))

\* Time passes between callbacks.
TickSteps == {STALE_FLOOR}

Advance(d) ==
    /\ now + d <= MaxTicks * STALE_FLOOR
    /\ now' = now + d

Tick(d) ==
    /\ Advance(d)
    /\ result' = NoResult
    /\ UNCHANGED <<lifeVars, sinceStop>>
    /\ LifeFrame

\* ------------------------------------------------------------------------
\* Credential and session store, access control
\* ------------------------------------------------------------------------

VALID_ROLES == {"admin", "operator", "viewer"}

ROLE_PERMISSIONS ==
    [r \in VALID_ROLES |->
        CASE r = "admin" -> {"status:read", "logs:read", "bot:control",
                             "config:read", "config:write", "users:read",
                             "users:write"}
          [] r = "operator" -> {"status:read", "logs:read", "bot:control",
                                "config:read"}
          [] r = "viewer" -> {"status:read", "logs:read", "config:read"}]

getPermissions(role) ==
    IF role \in DOMAIN ROLE_PERMISSIONS THEN ROLE_PERMISSIONS[role] ELSE {}

\* String(x || "").trim() on the strings the model sends: a padded string
\* loses its padding, a blank one becomes empty.
Trim(s) ==
    CASE s = " " -> ""
      [] s = " t1 " -> "t1"
      [] s = " n1 " -> "n1"
      [] s = " h2 " -> "h2"
      [] OTHER -> s

EmptyMap == [h \in {} |-> NULL]

\* The store as one value.
A == [users |-> users, sessions |-> sessions, nextId |-> nextId,
      nextHandle |-> nextHandle]

SetA(a) ==
    /\ users' = a.users
    /\ sessions' = a.sessions
    /\ nextId' = a.nextId
    /\ nextHandle' = a.nextHandle

\* Array.prototype.find on config.users: the first index among hits, or 0.
FirstIndex(hits) ==
    IF hits = {} THEN 0 ELSE CHOOSE i \in hits : \A j \in hits : i <= j

findUserByToken(a, token) ==
    FirstIndex({i \in DOMAIN a.users : a.users[i].token = token})

findUserById(a, id) ==
    FirstIndex({i \in DOMAIN a.users : a.users[i].id = id})

Without(m, drop) == [h \in DOMAIN m \ drop |-> m[h]]

revokeSessionsForUser(a, userId) ==
    [a EXCEPT !.sessions =
        Without(@, {h \in DOMAIN @ : @[h].userId = userId})]

pruneExpiredSessions(a) ==
    [a EXCEPT !.sessions =
        Without(@, {h \in DOMAIN @ : @[h].expiresAt <= now})]

\* The handle is fresh: 24 random bytes.
createSession(a, userIdx) ==
    [a EXCEPT !.sessions =
                  [h \in DOMAIN @ \cup {a.nextHandle} |->
                      IF h = a.nextHandle
                      THEN [userId |-> a.users[userIdx].id,
                            expiresAt |-> now + SESSION_TTL_MS]
                      ELSE @[h]],
              !.nextHandle = @ + 1]

\* resolveAuthFromToken without the sliding expiry.
resolveAuthFromToken_noSlide(a, h) ==
    IF h = NULL \/ h \notin DOMAIN a.sessions
    THEN [a |-> a, user |-> 0, purged |-> FALSE]
    ELSE IF a.sessions[h].expiresAt <= now
    THEN [a |-> [a EXCEPT !.sessions = Without(@, {h})], user |-> 0,
          purged |-> TRUE]
    ELSE IF findUserById(a, a.sessions[h].userId) = 0
    THEN [a |-> [a EXCEPT !.sessions = Without(@, {h})], user |-> 0,
          purged |-> TRUE]
    ELSE [a |-> a, user |-> findUserById(a, a.sessions[h].userId),
          purged |-> FALSE]

\* resolveAuthFromToken with the expiry test off by one (< for <=).
resolveAuthFromToken_lateExpiry(a, h) ==
    IF h = NULL \/ h \notin DOMAIN a.sessions
    THEN [a |-> a, user |-> 0, purged |-> FALSE]
    ELSE IF a.sessions[h].expiresAt < now
    THEN [a |-> [a EXCEPT !.sessions = Without(@, {h})], user |-> 0,
          purged |-> TRUE]
    ELSE IF findUserById(a, a.sessions[h].userId) = 0
    THEN [a |-> [a EXCEPT !.sessions = Without(@, {h})], user |-> 0,
          purged |-> TRUE]
    ELSE [a |-> [a EXCEPT !.sessions[h].expiresAt = now + SESSION_TTL_MS],
          user |-> findUserById(a, a.sessions[h].userId),
          purged |-> FALSE]

\* Returns the store it leaves, the index of the resolved user (0: null was
\* returned) and whether it deleted the session it was asked about.
resolveAuthFromToken(a, h) ==
    IF h = NULL \/ h \notin DOMAIN a.sessions
    THEN [a |-> a, user |-> 0, purged |-> FALSE]
    ELSE IF a.sessions[h].expiresAt <= now
    THEN [a |-> [a EXCEPT !.sessions = Without(@, {h})], user |-> 0,
          purged |-> TRUE]
    ELSE IF findUserById(a, a.sessions[h].userId) = 0
    THEN [a |-> [a EXCEPT !.sessions = Without(@, {h})], user |-> 0,
          purged |-> TRUE]
    ELSE [a |-> [a EXCEPT !.sessions[h].expiresAt = now + SESSION_TTL_MS],
          user |-> findUserById(a, a.sessions[h].userId),
          purged |-> FALSE]

\* What a request answers: the handler, the HTTP status, the bearer handle
\* it carried, whether resolving it purged a session, and for login and /me
\* the permissions and the session handle in the body.
Resp(op, status, h, purged, perms, session) ==
    [op |-> op, status |-> status, handle |-> h, purged |-> purged,
     perms |-> perms, session |-> session]

\* The gate without requirePermission: any resolved session passes.
Gate_noPermission(a, h, permission) ==
    LET r == resolveAuthFromToken(a, h)
    IN [a |-> r.a, user |-> r.user, purged |-> r.purged,
        status |-> IF r.user = 0 THEN 401 ELSE 0]

\* requireAuth then requirePermission(permission); permission "" stands for
\* a route with requireAuth alone.  status 0: the request reaches its handler.
Gate(a, h, permission) ==
    LET r == resolveAuthFromToken(a, h)
    IN [a |-> r.a, user |-> r.user, purged |-> r.purged,
        status |-> IF r.user = 0 THEN 401
                   ELSE IF permission # "" /\ permission \notin
                               getPermissions(r.a.users[r.user].role)
                   THEN 403
                   ELSE 0]

\* A login that falls back to the first user when the token matches none.
login_firstUser(a, rawToken) ==
    LET token == Trim(rawToken)
        found == findUserByToken(a, token)
        idx == IF found = 0 /\ a.users # <<>> THEN 1 ELSE found
    IN IF token = ""
       THEN [a |-> a, resp |-> Resp("login", 400, NULL, FALSE, {}, NULL)]
       ELSE IF idx = 0
       THEN [a |-> a, resp |-> Resp("login", 401, NULL, FALSE, {}, NULL)]
       ELSE [a |-> createSession(a, idx),
             resp |-> Resp("login", 200, NULL, FALSE,
                           getPermissions(a.users[idx].role), a.nextHandle)]

\* POST /api/auth/login
login(a, rawToken) ==
    LET token == Trim(rawToken)
        idx == findUserByToken(a, token)
    IN IF token = ""
       THEN [a |-> a, resp |-> Resp("login", 400, NULL, FALSE, {}, NULL)]
       ELSE IF idx = 0
       THEN [a |-> a, resp |-> Resp("login", 401, NULL, FALSE, {}, NULL)]
       ELSE [a |-> createSession(a, idx),
             resp |-> Resp("login", 200, NULL, FALSE,
                           getPermissions(a.users[idx].role), a.nextHandle)]

\* POST /api/auth/logout
logout(a, h) ==
    LET g == Gate(a, h, "")
    IN IF g.status # 0
       THEN [a |-> g.a, resp |-> Resp("logout", g.status, h, g.purged, {}, NULL)]
       ELSE [a |-> [g.a EXCEPT !.sessions = Without(@, {h})],
             resp |-> Resp("logout", 200, h, FALSE, {}, NULL)]

\* GET /api/me
me(a, h) ==
    LET g == Gate(a, h, "")
    IN IF g.status # 0
       THEN [a |-> g.a, resp |-> Resp("me", g.status, h, g.purged, {}, NULL)]
       ELSE [a |-> g.a,
             resp |-> Resp("me", 200, h, FALSE,
                           getPermissions(g.a.users[g.user].role), NULL)]

\* POST /api/users without its "token already in use" test.
createUser_noConflict(a, h, body, gen) ==
    LET g == Gate(a, h, "users:write")
        name == Trim(body.name)
        role == IF body.role \in VALID_ROLES THEN body.role ELSE "operator"
        token == IF Trim(body.token) # "" THEN Trim(body.token) ELSE gen
    IN IF g.status # 0
       THEN [a |-> g.a, resp |-> Resp("create", g.status, h, g.purged, {}, NULL)]
       ELSE IF name = ""
       THEN [a |-> g.a, resp |-> Resp("create", 400, h, FALSE, {}, NULL)]
       ELSE [a |-> [g.a EXCEPT
                       !.users = Append(@, [id |-> g.a.nextId, name |-> name,
                                            role |-> role, token |-> token]),
                       !.nextId = @ + 1],
             resp |-> Resp("create", 200, h, FALSE, {}, NULL)]

\* POST /api/users.  body.token empty: makeUserToken() supplies gen.
createUser(a, h, body, gen) ==
    LET g == Gate(a, h, "users:write")
        name == Trim(body.name)
        role == IF body.role \in VALID_ROLES THEN body.role ELSE "operator"
        token == IF Trim(body.token) # "" THEN Trim(body.token) ELSE gen
    IN IF g.status # 0
       THEN [a |-> g.a, resp |-> Resp("create", g.status, h, g.purged, {}, NULL)]
       ELSE IF name = ""
       THEN [a |-> g.a, resp |-> Resp("create", 400, h, FALSE, {}, NULL)]
       ELSE IF \E i \in DOMAIN g.a.users : g.a.users[i].token = token
       THEN [a |-> g.a, resp |-> Resp("create", 409, h, FALSE, {}, NULL)]
       ELSE [a |-> [g.a EXCEPT
                       !.users = Append(@, [id |-> g.a.nextId, name |-> name,
                                            role |-> role, token |-> token]),
                       !.nextId = @ + 1],
             resp |-> Resp("create", 200, h, FALSE, {}, NULL)]

adminCount(us) == Cardinality({i \in DOMAIN us : us[i].role = "admin"})

TokenTaken(us, id, token) ==
    \E i \in DOMAIN us : us[i].id # id /\ us[i].token = token

\* patchHandler that applies the new role before it validates the request.
patchHandler_mutateFirst(a, actor, h, id, body, gen) ==
    LET t == findUserById(a, id)
        target == a.users[t]
        nextRole == IF body.role \in VALID_ROLES THEN body.role
                    ELSE target.role
        nextName == Trim(body.name)
        roleChanged == nextRole # target.role
        a0 == IF roleChanged THEN [a EXCEPT !.users[t].role = nextRole]
              ELSE a
        a2 == IF nextName # "" THEN [a0 EXCEPT !.users[t].name = nextName]
              ELSE a0
        providedToken == Trim(body.token)
        a3 == IF providedToken # ""
              THEN [a2 EXCEPT !.users[t].token = providedToken] ELSE a2
        a4 == IF body.rotateToken THEN [a3 EXCEPT !.users[t].token = gen]
              ELSE a3
        revokeSessions == roleChanged \/ providedToken # "" \/ body.rotateToken
        a5 == IF revokeSessions THEN revokeSessionsForUser(a4, target.id)
              ELSE a4
    IN IF t = 0
       THEN [a |-> a, resp |-> Resp("patch", 404, h, FALSE, {}, NULL)]
       ELSE IF target.id = a.users[actor].id /\ nextRole # "admin"
       THEN [a |-> a0, resp |-> Resp("patch", 400, h, FALSE, {}, NULL)]
       ELSE IF target.role = "admin" /\ nextRole # "admin"
               /\ adminCount(a.users) <= 1
       THEN [a |-> a0, resp |-> Resp("patch", 400, h, FALSE, {}, NULL)]
       ELSE IF providedToken # "" /\ TokenTaken(a2.users, target.id, providedToken)
       THEN [a |-> a2, resp |-> Resp("patch", 409, h, FALSE, {}, NULL)]
       ELSE [a |-> a5, resp |-> Resp("patch", 200, h, FALSE, {}, NULL)]

\* The body of PATCH /api/users/:id once the gate has let it through, in the
\* order of its statements.  body.rotateToken: makeUserToken() supplies gen,
\* drawn again until no other user holds it.
patchHandler(a, actor, h, id, body, gen) ==
    LET t == findUserById(a, id)
        target == a.users[t]
        nextRole == IF body.role \in VALID_ROLES THEN body.role
                    ELSE target.role
        nextName == Trim(body.name)
        a1 == IF nextName # "" THEN [a EXCEPT !.users[t].name = nextName]
              ELSE a
        roleChanged == nextRole # target.role
        a2 == IF roleChanged THEN [a1 EXCEPT !.users[t].role = nextRole]
              ELSE a1
        providedToken == Trim(body.token)
        a3 == IF providedToken # ""
              THEN [a2 EXCEPT !.users[t].token = providedToken] ELSE a2
        a4 == IF body.rotateToken THEN [a3 EXCEPT !.users[t].token = gen]
              ELSE a3
        revokeSessions == roleChanged \/ providedToken # "" \/ body.rotateToken
        a5 == IF revokeSessions THEN revokeSessionsForUser(a4, target.id)
              ELSE a4
    IN IF t = 0
       THEN [a |-> a, resp |-> Resp("patch", 404, h, FALSE, {}, NULL)]
       ELSE IF target.id = a.users[actor].id /\ nextRole # "admin"
       THEN [a |-> a, resp |-> Resp("patch", 400, h, FALSE, {}, NULL)]
       ELSE IF target.role = "admin" /\ nextRole # "admin"
               /\ adminCount(a.users) <= 1
       THEN [a |-> a, resp |-> Resp("patch", 400, h, FALSE, {}, NULL)]
       ELSE IF providedToken # "" /\ TokenTaken(a2.users, target.id, providedToken)
       THEN [a |-> a2, resp |-> Resp("patch", 409, h, FALSE, {}, NULL)]
       ELSE [a |-> a5, resp |-> Resp("patch", 200, h, FALSE, {}, NULL)]

\* PATCH /api/users/:id
patchUser(a, h, id, body, gen) ==
    LET g == Gate(a, h, "users:write")
    IN IF g.status # 0
       THEN [a |-> g.a, resp |-> Resp("patch", g.status, h, g.purged, {}, NULL)]
       ELSE patchHandler(g.a, g.user, h, id, body, gen)

\* The body of DELETE /api/users/:id once the gate has let it through.
deleteHandler(a, actor, h, id) ==
    LET t == findUserById(a, id)
        target == a.users[t]
        kept == SelectSeq(a.users, LAMBDA u : u.id # target.id)
    IN IF t = 0
       THEN [a |-> a, resp |-> Resp("delete", 404, h, FALSE, {}, NULL)]
       ELSE IF target.id = a.users[actor].id
       THEN [a |-> a, resp |-> Resp("delete", 400, h, FALSE, {}, NULL)]
       ELSE IF target.role = "admin" /\ adminCount(a.users) <= 1
       THEN [a |-> a, resp |-> Resp("delete", 400, h, FALSE, {}, NULL)]
       ELSE [a |-> revokeSessionsForUser([a EXCEPT !.users = kept], target.id),
             resp |-> Resp("delete", 200, h, FALSE, {}, NULL)]

\* DELETE /api/users/:id
deleteUser(a, h, id) ==
    LET g == Gate(a, h, "users:write")
    IN IF g.status # 0
       THEN [a |-> g.a, resp |-> Resp("delete", g.status, h, g.purged, {}, NULL)]
       ELSE deleteHandler(g.a, g.user, h, id)


\* ------------------------------------------------------------------------
\* Boot: loadConfig
\* ------------------------------------------------------------------------

\* What normalizeUser returns for an entry it rejects (null).
NoUser == [id |-> NULL, name |-> "", role |-> "", token |-> ""]

\* A persisted entry: junk is an entry that is no object; id NULL is an entry
\* without an id, which gets the fresh one.
normalizeUser(rawUser, freshId) ==
    IF rawUser.junk THEN NoUser
    ELSE IF Trim(rawUser.name) = "" \/ Trim(rawUser.token) = "" THEN NoUser
    ELSE [id |-> IF rawUser.id # NULL THEN rawUser.id ELSE freshId,
          name |-> Trim(rawUser.name),
          role |-> IF rawUser.role \in VALID_ROLES THEN rawUser.role
                   ELSE "viewer",
          token |-> Trim(rawUser.token)]

\* The ids persisted entries carry; crypto.randomUUID never returns one.
RawIds == {1, 2}
FreshBase == Cardinality(RawIds)

\* loadConfig's user list: the persisted entries normalised, the rejected
\* ones dropped, and an admin seeded when none is left.  initialToken is
\* process.env.ADMIN_TOKEN || makeUserToken("admin").
loadConfig(rawUsers, initialToken) ==
    LET mapped == [i \in DOMAIN rawUsers |->
                      normalizeUser(rawUsers[i], FreshBase + i)]
        kept == SelectSeq(mapped, LAMBDA u : u # NoUser)
        seedId == FreshBase + Len(rawUsers) + 1
    IN [users |-> IF Len(kept) = 0
                  THEN <<[id |-> seedId, name |-> "Owner", role |-> "admin",
                          token |-> initialToken]>>
                  ELSE kept,
        sessions |-> EmptyMap,
        nextId |-> seedId + 1,
        nextHandle |-> 1]


InitLife ==
    /\ bot = NULL
    /\ botStatus = "stopped"
    /\ serverStatus = "unknown"
    /\ reconnectAttempts = 0
    /\ lastPing = NULL
    /\ lastBotEventAt = 0
    /\ botStartTime = NULL
    /\ isRunning = FALSE
    /\ pingTimer = FALSE
    /\ reconnectTimer = NULL
    /\ reconnectTimeouts = 0
    /\ healthTimer = FALSE
    /\ keepAlivePulseCount = 0
    /\ clients = <<>>
    /\ startTimers = <<AUTOSTART_DELAY>>
    /\ now = 0
    /\ result = NoResult
    /\ sinceStop = "none"
    /\ config = DEFAULT_CONFIG
    /\ sockets = <<>>

\* The store as boot leaves it.
InitStore(rawUsers, initialToken) ==
    /\ raw = rawUsers
    /\ booted = TRUE
    /\ users = loadConfig(rawUsers, initialToken).users
    /\ sessions = loadConfig(rawUsers, initialToken).sessions
    /\ nextId = loadConfig(rawUsers, initialToken).nextId
    /\ nextHandle = loadConfig(rawUsers, initialToken).nextHandle

InitAuthIdle == InitStore(<<>>, "t1")

InitLogIdle ==
    /\ logs = <<>>
    /\ logSeq = 0
    /\ logsResp = <<>>

Init == InitLife /\ InitAuthIdle /\ InitLogIdle

Next ==
    \/ \E ok \in BOOLEAN : StartCall(ok)
    \/ StopCall
    \/ RestartCall
    \/ \E i \in DOMAIN startTimers, ok \in BOOLEAN : StartTimerFire(i, ok)
    \/ \E ok \in BOOLEAN : ReconnectTimerFire(ok)
    \/ HealthSweep
    \/ \E ok \in BOOLEAN : Pulse(ok)
    \/ \E c \in DOMAIN clients : ClientLogin(c)
    \/ \E c \in DOMAIN clients : ClientSpawn(c)
    \/ \E c \in DOMAIN clients : ClientKicked(c)
    \/ \E c \in DOMAIN clients, refused \in BOOLEAN : ClientError(c, refused)
    \/ \E c \in DOMAIN clients : ClientEnd(c)
    \/ \E c \in DOMAIN clients : ClientActivity(c)
    \/ \E d \in TickSteps : Tick(d)

Spec == Init /\ [][Next]_vars

\* ------------------------------------------------------------------------
\* The controller with its timers fired fairly
\* ------------------------------------------------------------------------

\* The last instant the clock of a run shows.
Horizon == MaxTicks * STALE_FLOOR

Back(t, d, floor) == IF t = NULL THEN NULL ELSE Max(t - d, floor)

\* The connection record with every stored time d earlier.  The handlers
\* read stored times only through their distance to the present (due or not
\* due, stale or not stale), so a time is kept no further back than where
\* that distance stops mattering.
Earlier(s, d) ==
    [s EXCEPT !.lastBotEventAt = Max(@ - d, now - staleThreshold - 1),
              !.reconnectTimer = Back(@, d, 0),
              !.lastPing = Back(@, d, 0),
              !.botStartTime = Back(@, d, 0),
              !.startTimers = [i \in DOMAIN @ |-> Back(@[i], d, 0)]]

\* Time passes between callbacks, for ever: up to the horizon the clock
\* advances, from there on it is the origin of the clock that moves.
Elapse(d) ==
    /\ IF now + d <= Horizon
       THEN now' = now + d /\ UNCHANGED lifeVars
       ELSE now' = now /\ SetL(Earlier(L, d))
    /\ result' = NoResult
    /\ UNCHANGED sinceStop
    /\ LifeFrame

\* Restart, the keep-alive pulse and spawn are left to Spec: here a Stop
\* and a later Start stand for Restart, and the activity of the peer keeps
\* an online connection fresh.
RetryNext ==
    \/ \E ok \in BOOLEAN : StartCall(ok)
    \/ StopCall
    \/ \E i \in DOMAIN startTimers, ok \in BOOLEAN : StartTimerFire(i, ok)
    \/ \E ok \in BOOLEAN : ReconnectTimerFire(ok)
    \/ HealthSweep
    \/ \E c \in DOMAIN clients : ClientLogin(c)
    \/ \E c \in DOMAIN clients : ClientKicked(c)
    \/ \E c \in DOMAIN clients, refused \in BOOLEAN : ClientError(c, refused)
    \/ \E c \in DOMAIN clients : ClientEnd(c)
    \/ \E c \in DOMAIN clients : ClientActivity(c)
    \/ \E d \in TickSteps : Elapse(d)

\* setTimeout and setInterval callbacks run once they are due, and time
\* does not stop.
TimersFair ==
    /\ WF_vars(\E d \in TickSteps : Elapse(d))
    /\ WF_vars(HealthSweep)
    /\ WF_vars(\E ok \in BOOLEAN : ReconnectTimerFire(ok))

RetrySpec == Init /\ [][RetryNext]_vars /\ TimersFair

\* ------------------------------------------------------------------------
\* The controller with a keep-alive loop that runs long enough to log
\* ------------------------------------------------------------------------

\* Pulses counted since Start in one run: past the last one that logs.
PulseCap == PING_LOG_EVERY * MaxPulses + 1

\* Restart, the delayed Start and spawn are left to Spec.
PulseNext ==
    \/ \E ok \in BOOLEAN : StartCall(ok)
    \/ StopCall
    \/ \E ok \in BOOLEAN : ReconnectTimerFire(ok)
    \/ HealthSweep
    \/ \E ok \in BOOLEAN : PulseUpTo(ok, PulseCap)
    \/ \E c \in DOMAIN clients : ClientLogin(c)
    \/ \E c \in DOMAIN clients : ClientKicked(c)
    \/ \E c \in DOMAIN clients, refused \in BOOLEAN : ClientError(c, refused)
    \/ \E c \in DOMAIN clients : ClientEnd(c)
    \/ \E c \in DOMAIN clients : ClientActivity(c)
    \/ \E d \in TickSteps : Tick(d)

PulseSpec == Init /\ [][PulseNext]_vars

\* ------------------------------------------------------------------------
\* Requests on the store (AuthSpec) and boot (LoadSpec)
\* ------------------------------------------------------------------------
MaxUsers == 2          \* users in config.users
MaxSessions == 2       \* sessions issued in one run
MaxRaw == 2            \* entries in the persisted user list

\* Users created through the API in one run.
MaxCreates == MaxUsers - 1

\* The tokens makeUserToken() may return, and what request bodies carry.
Tokens == {"t1", "t3"}
BodyTokens == {"", " t1 ", "t3"}
BodyNames == {"", " n1 "}
BodyRoles == {"none", "admin", "viewer"}

\* The bearer handles a request can carry: an issued one, or none.
Handles == (1..(nextHandle - 1)) \cup {NULL}

\* The ids a request can name: a user's, or one no user has.
UserIds == {users[i].id : i \in DOMAIN users} \cup {0}

\* What makeUserToken() may return where the request makes it run.
Generated(needed) == IF needed THEN Tokens ELSE {"t1"}

CreateBodies == [name : BodyNames, role : BodyRoles, token : BodyTokens]

\* rotateToken replaces whatever token the body supplies, so the bodies that
\* rotate supply none.
PatchBodies ==
    {b \in [name : BodyNames, role : BodyRoles, token : BodyTokens,
            rotateToken : BOOLEAN] : b.rotateToken => b.token = ""}

\* A request the users:write gate rejects has neither its body nor its :id
\* read, so one value stands for all of them.
IfWrites(h, all, one) ==
    IF Gate(A, h, "users:write").status = 0 THEN all ELSE {one}

\* No request touches the connection record or the log buffer.
AuthFrame == UNCHANGED <<lifeVars, ctlVars, bootVars, apiVars, logVars>>

\* A request is handled: the store is left as the handler leaves it, and
\* r.resp is sent back.
Answer(r) ==
    /\ booted
    /\ SetA(r.a)
    /\ UNCHANGED now
    /\ AuthFrame

Login(rawToken) ==
    /\ nextHandle <= MaxSessions
    /\ Answer(login(A, rawToken))

Logout(h) == Answer(logout(A, h))

Me(h) == Answer(me(A, h))

\* Users created since boot.
Created == nextId - loadConfig(raw, "t1").nextId

CreateUser(h, body, gen) ==
    /\ Len(users) < MaxUsers
    /\ Created < MaxCreates
    /\ Answer(createUser(A, h, body, gen))

PatchUser(h, id, body, gen) ==
    /\ body.rotateToken => ~TokenTaken(users, id, gen)
    /\ Answer(patchUser(A, h, id, body, gen))

DeleteUser(h, id) == Answer(deleteUser(A, h, id))

\* The session sweep interval's callback runs.
SweepExpired ==
    /\ booted
    /\ SetA(pruneExpiredSessions(A))
    /\ UNCHANGED now
    /\ AuthFrame

\* Time passes between requests, half a session lifetime at a time.
SessionTick ==
    /\ booted
    /\ now + SESSION_TTL_MS \div 2 <= MaxTicks * (SESSION_TTL_MS \div 2)
    /\ now' = now + SESSION_TTL_MS \div 2
    /\ UNCHANGED <<users, sessions, nextId, nextHandle>>
    /\ AuthFrame

\* The process starts: config = loadConfig().
LoadConfig(initialToken) ==
    /\ ~booted
    /\ SetA(loadConfig(raw, initialToken))
    /\ booted' = TRUE
    /\ UNCHANGED <<raw, now, lifeVars, ctlVars, apiVars, logVars>>

RawUsers ==
    [junk : {FALSE}, id : {NULL, 1}, name : {"", " n1 "},
     role : {"admin", "viewer", "owner"}, token : {"", "t1", " t1 "}]
    \cup {[junk |-> TRUE, id |-> NULL, name |-> "", role |-> "", token |-> ""]}

RawLists == UNION {[1..n -> RawUsers] : n \in 0..MaxRaw}

\* The lists the store is explored from: a fresh install, and an admin with
\* an operator.
BootLists ==
    {<<>>,
     <<[junk |-> FALSE, id |-> 1, name |-> "n1", role |-> "admin",
        token |-> "t1"],
       [junk |-> FALSE, id |-> 2, name |-> "n1", role |-> "operator",
        token |-> "t2"]>>}

AuthInit ==
    /\ InitLife
    /\ InitLogIdle
    /\ \E rawUsers \in BootLists : InitStore(rawUsers, "t1")

AuthNext ==
    \/ \E rawToken \in BodyTokens : Login(rawToken)
    \/ \E h \in Handles : Logout(h)
    \/ \E h \in Handles : Me(h)
    \/ \E h \in Handles :
          \E body \in IfWrites(h, CreateBodies,
                               [name |-> "", role |-> "none", token |-> ""]) :
          \E gen \in Generated(body.token = "") : CreateUser(h, body, gen)
    \/ \E h \in Handles :
          \E id \in IfWrites(h, UserIds, 0) :
          \E body \in IfWrites(h, PatchBodies,
                               [name |-> "", role |-> "none", token |-> "",
                                rotateToken |-> FALSE]) :
          \E gen \in Generated(body.rotateToken) : PatchUser(h, id, body, gen)
    \/ \E h \in Handles :
          \E id \in IfWrites(h, UserIds, 0) : DeleteUser(h, id)
    \/ SweepExpired
    \/ SessionTick

AuthSpec == AuthInit /\ [][AuthNext]_vars

LoadInit ==
    /\ InitLife
    /\ InitLogIdle
    /\ raw \in RawLists
    /\ booted = FALSE
    /\ users = <<>>
    /\ sessions = EmptyMap
    /\ nextId = 1
    /\ nextHandle = 1

LoadNext ==
    \/ \E initialToken \in {"t1", " t1 "} : LoadConfig(initialToken)
    \/ \E rawToken \in BodyTokens : Login(rawToken)
    \/ \E h \in Handles : Me(h)

LoadSpec == LoadInit /\ [][LoadNext]_vars

\* ------------------------------------------------------------------------
\* Event log
\* ------------------------------------------------------------------------
MaxExtra == 2          \* entries appended beyond the buffer's capacity

\* addLog that evicts with pop() in place of shift().
addLog_evictsNewest(lg, entry) ==
    IF Len(lg) + 1 > MAX_LOGS THEN lg ELSE Append(lg, entry)

addLog(lg, entry) ==
    IF Len(lg) + 1 > MAX_LOGS THEN Tail(Append(lg, entry))
    ELSE Append(lg, entry)

\* toPositiveInt on a query parameter: NULL is a missing or unparsable one.
toPositiveInt(value, fallback) ==
    IF value # NULL /\ value > 0 THEN value ELSE fallback

\* Array.prototype.slice(-k) for k >= 1.
SliceLast(lg, k) ==
    IF k >= Len(lg) THEN lg ELSE SubSeq(lg, Len(lg) - k + 1, Len(lg))

\* The body of GET /api/logs?limit=...
recent(lg, limit) ==
    SliceLast(lg, Min(toPositiveInt(limit, DEFAULT_LIMIT), MAX_LOGS))

LogLevels == {"INFO"}
Limits == {NULL, 0, 1, MAX_LOGS, MAX_LOGS + 1}

LogFrame ==
    UNCHANGED <<lifeVars, ctlVars, now, authVars, bootVars, apiVars>>

\* addLog(level, message): the entry's id stands for the entry.  logsResp
\* is the body sent by the step just taken, empty when that step sent none.
AppendLog(level) ==
    /\ logSeq < MAX_LOGS + MaxExtra
    /\ logs' = addLog(logs, [id |-> logSeq + 1, level |-> level])
    /\ logSeq' = logSeq + 1
    /\ logsResp' = <<>>
    /\ LogFrame

\* GET /api/logs
GetLogs(limit) ==
    /\ logsResp' = recent(logs, limit)
    /\ UNCHANGED <<logs, logSeq>>
    /\ LogFrame

LogInit == InitLife /\ InitAuthIdle /\ InitLogIdle

LogNext ==
    \/ \E level \in LogLevels : AppendLog(level)
    \/ \E limit \in Limits : GetLogs(limit)

LogSpec == LogInit /\ [][LogNext]_vars

\* ------------------------------------------------------------------------
\* Gated control and settings requests, and the realtime channel
\* (ControlSpec)
\* ------------------------------------------------------------------------
MaxSockets == 1        \* realtime connections admitted in one run

ControlOps == {"start", "stop", "restart"}

\* The controller operation a control request or message names.
Control(s, op, ok) ==
    CASE op = "start" -> startBot(s, ok)
      [] op = "stop" -> stopBot(s)
      [] op = "restart" -> restartBot(s)

ControlResult(s, op) ==
    CASE op = "start" -> startBotResult(s)
      [] op = "stop" -> stopBotResult(s)
      [] op = "restart" -> restartBotResult(s)

\* POST /api/start, /api/stop, /api/restart: the store and the connection
\* record they leave, the status and the body they answer.
controlRequest(a, s, h, op, ok) ==
    LET g == Gate(a, h, "bot:control")
    IN IF g.status # 0
       THEN [a |-> g.a, s |-> s, status |-> g.status, body |-> NoResult]
       ELSE [a |-> g.a, s |-> Control(s, op, ok), status |-> 200,
             body |-> ControlResult(s, op)]

\* The merge POST /api/config makes.  A numeric field that is NULL is absent
\* from the body; a text field that is absent, or is no string, is "".
mergeConfig(cfg, body) ==
    [host |-> IF Trim(body.host) # ""
              THEN Trim(body.host) ELSE cfg.host,
     username |-> IF Trim(body.username) # ""
                  THEN Trim(body.username) ELSE cfg.username,
     version |-> IF Trim(body.version) # ""
                 THEN Trim(body.version) ELSE cfg.version,
     port |-> IF body.port # NULL THEN toPositiveInt(body.port, cfg.port)
              ELSE cfg.port,
     reconnectDelay |->
         IF body.reconnectDelay # NULL
         THEN toPositiveInt(body.reconnectDelay, cfg.reconnectDelay)
         ELSE cfg.reconnectDelay,
     pingInterval |->
         IF body.pingInterval # NULL
         THEN toPositiveInt(body.pingInterval, cfg.pingInterval)
         ELSE cfg.pingInterval]

\* POST /api/config
configRequest(a, cfg, h, body) ==
    LET g == Gate(a, h, "config:write")
    IN IF g.status # 0
       THEN [a |-> g.a, config |-> cfg, status |-> g.status]
       ELSE [a |-> g.a, config |-> mergeConfig(cfg, body), status |-> 200]

\* wss.on("connection"): the session handle comes as a query parameter.
\* sent is the type of the message the server sends first.
wsConnect(a, h) ==
    LET r == resolveAuthFromToken(a, h)
    IN IF r.user = 0
       THEN [a |-> r.a, admitted |-> FALSE, sent |-> "error",
             socket |-> [open |-> FALSE, user |-> NULL, permissions |-> {}]]
       ELSE [a |-> r.a, admitted |-> TRUE, sent |-> "init",
             socket |-> [open |-> TRUE, user |-> r.a.users[r.user].id,
                         permissions |->
                             getPermissions(r.a.users[r.user].role)]]

\* ws.on("message") on an admitted connection.  action "none": the payload
\* does not parse or names no action; "other": it names an unknown one.
wsMessage(s, socket, action, ok) ==
    IF action = "none" THEN [s |-> s, sent |-> "none", body |-> NoResult]
    ELSE IF "bot:control" \notin socket.permissions
    THEN [s |-> s, sent |-> "error", body |-> NoResult]
    ELSE IF action \in ControlOps
    THEN [s |-> Control(s, action, ok), sent |-> "actionResult",
          body |-> ControlResult(s, action)]
    ELSE [s |-> s, sent |-> "none", body |-> NoResult]

WsActions == ControlOps \cup {"none", "other"}

\* What the history variable records of a controller call.
SinceStopAfter(s, op) ==
    IF op = "stop" THEN (IF s.isRunning THEN "stopped" ELSE sinceStop)
    ELSE "requested"

ConfigBodies ==
    {[host |-> " h2 ", username |-> " n1 ", version |-> "", port |-> NULL,
      reconnectDelay |-> Ms(30000), pingInterval |-> NULL],
     [host |-> " ", username |-> "", version |-> " ", port |-> 0,
      reconnectDelay |-> 0, pingInterval |-> 0]}

\* POST /api/start | stop | restart
ControlRequest(h, op, ok) ==
    LET r == controlRequest(A, L, h, op, ok)
    IN /\ Within(r.s)
       /\ SetA(r.a)
       /\ SetL(r.s)
       /\ IF r.status = 200
          THEN result' = r.body /\ sinceStop' = SinceStopAfter(L, op)
          ELSE UNCHANGED <<result, sinceStop>>
       /\ UNCHANGED <<now, bootVars, apiVars, logVars>>

\* POST /api/config
ConfigRequest(h, body) ==
    LET r == configRequest(A, config, h, body)
    IN /\ SetA(r.a)
       /\ config' = r.config
       /\ UNCHANGED <<lifeVars, ctlVars, now, bootVars, sockets, logVars>>

\* A realtime connection arrives.
WsConnect(h) ==
    LET r == wsConnect(A, h)
    IN /\ Len(sockets) < MaxSockets
       /\ SetA(r.a)
       /\ sockets' = IF r.admitted THEN Append(sockets, r.socket)
                     ELSE sockets
       /\ UNCHANGED <<lifeVars, ctlVars, now, bootVars, config, logVars>>

\* An admitted connection sends a message.  The server closes no admitted
\* connection, and the runs explored are those in which no peer does.
WsMessage(k, action, ok) ==
    LET r == wsMessage(L, sockets[k], action, ok)
    IN /\ sockets[k].open
       /\ Within(r.s)
       /\ SetL(r.s)
       /\ IF r.sent = "actionResult"
          THEN result' = r.body /\ sinceStop' = SinceStopAfter(L, action)
          ELSE UNCHANGED <<result, sinceStop>>
       /\ UNCHANGED <<now, authVars, bootVars, apiVars, logVars>>

\* PATCH /api/users/:id with a body that names a role and nothing else.
ChangeRole(h, id, role) ==
    PatchUser(h, id, [name |-> "", role |-> role, token |-> "",
                      rotateToken |-> FALSE], "t1")

ControlInit ==
    /\ InitLife
    /\ InitLogIdle
    /\ InitStore(<<[junk |-> FALSE, id |-> 1, name |-> "n1", role |-> "admin",
                    token |-> "t1"],
                   [junk |-> FALSE, id |-> 2, name |-> "n1",
                    role |-> "operator", token |-> "t3"]>>, "t1")

\* A request the gate rejects has nothing but its bearer handle read, so
\* one value stands for all the others it could carry.
IfAllowed(h, permission, all, one) ==
    IF Gate(A, h, permission).status = 0 THEN all ELSE {one}

\* In these runs mineflayer.createBot returns an instance; Spec covers the
\* runs in which it throws.
ControlNext ==
    \/ \E rawToken \in Tokens : Login(rawToken)
    \/ \E h \in Handles :
          \E op \in IfAllowed(h, "bot:control", ControlOps, "start") :
             ControlRequest(h, op, TRUE)
    \/ \E h \in Handles :
          \E body \in IfAllowed(h, "config:write", ConfigBodies,
                                CHOOSE b \in ConfigBodies : TRUE) :
             ConfigRequest(h, body)
    \/ \E h \in Handles : WsConnect(h)
    \/ \E k \in DOMAIN sockets, action \in WsActions :
          WsMessage(k, action, TRUE)
    \/ \E h \in Handles :
          \E id \in IfWrites(h, UserIds, 0) :
          \E role \in IfWrites(h, VALID_ROLES, "viewer") :
             ChangeRole(h, id, role)

ControlSpec == ControlInit /\ [][ControlNext]_vars

\* ------------------------------------------------------------------------
\* Properties of the lifecycle controller (checked under Spec)
\* ------------------------------------------------------------------------

LiveClients == {c \in DOMAIN clients : ~clients[c].quit}

\* C1: at most one protocol-client instance is live at any time, the live
\* one is the instance the controller holds, and whenever a newer instance
\* exists every older one has been quit and has had its listeners detached.
C1_SingleLiveClient ==
    /\ Cardinality(LiveClients) <= 1
    /\ \A c \in DOMAIN clients :
           (~clients[c].quit \/ clients[c].listeners) => bot = c
    /\ \A c \in DOMAIN clients :
           c < Len(clients) => clients[c].quit /\ ~clients[c].listeners

\* A second instance is held after the first one was replaced.
C1_Witness ==
    /\ Len(clients) >= 2
    /\ bot = Len(clients)
    /\ clients[1].quit

\* C2: in the state a successful stopBot leaves, no reconnect timer is
\* pending, the keep-alive and health timers are cancelled, no protocol
\* client is held, phase is stopped and reachability is unknown.
C2_StopLeavesNothingPending ==
    (result.op = "stop" /\ result.success) =>
        /\ reconnectTimer = NULL
        /\ ~pingTimer
        /\ ~healthTimer
        /\ bot = NULL
        /\ LiveClients = {}
        /\ botStatus = "stopped"
        /\ serverStatus = "unknown"
        /\ ~isRunning

\* A Stop succeeded on a connection that had a client and had queued a
\* reconnect since its last login.
C2_Witness ==
    /\ result.op = "stop"
    /\ result.success
    /\ clients # <<>>
    /\ reconnectAttempts > 0

\* C3: once a Stop call has succeeded, desired stays NotRunning (so no
\* connection attempt is made) until a Start or Restart is requested after
\* that Stop.
C3_NoRevivalAfterStop == sinceStop = "stopped" => ~isRunning

\* C10: a rejected control call changes nothing: Start while desired is
\* Running, and Stop while desired is NotRunning, report failure and leave
\* the whole connection record, the client and every timer as they were.
C10_RejectedCallIsNoOp ==
    [][/\ (result'.op = "start" /\ isRunning) =>
              (~result'.success /\ UNCHANGED <<lifeVars, now>>)
       /\ (result'.op = "stop" /\ ~isRunning) =>
              (~result'.success /\ UNCHANGED <<lifeVars, now>>)]_vars

\* A Start was rejected while the attempt counter was non-zero and the
\* session-start timestamp was set.
C10_Witness ==
    /\ result.op = "start"
    /\ ~result.success
    /\ isRunning
    /\ reconnectAttempts > 0
    /\ botStartTime # NULL

\* A failure event of instance c is handled: kicked, error or end.
ClientFailure(c) ==
    \/ ClientKicked(c)
    \/ \E refused \in BOOLEAN : ClientError(c, refused)
    \/ ClientEnd(c)

C12_ReconnectQueuedOnce ==
    /\ [](/\ reconnectTimeouts = IF reconnectTimer = NULL THEN 0 ELSE 1
          /\ reconnectTimer # NULL => queueReconnect(L) = L)
    /\ [][(/\ reconnectTimer # NULL
           /\ \/ HealthSweep
              \/ \E c \in DOMAIN clients : ClientFailure(c)) =>
              /\ reconnectTimer' = reconnectTimer
              /\ reconnectAttempts' = reconnectAttempts
              /\ reconnectTimeouts' = 1]_vars

\* A kicked or error event was handled while a reconnect was pending: the
\* phase is Error, which queueReconnect would have overwritten had it queued.
C12_Witness ==
    /\ isRunning
    /\ bot # NULL
    /\ botStatus = "error"
    /\ reconnectTimer # NULL
    /\ reconnectTimeouts = 1
    /\ reconnectAttempts = 1

\* C13: a health sweep that runs with desired Running, phase Online and the
\* last activity longer ago than the stale threshold quits the held
\* instance, halts keep-alive, sets reachability Unknown and leaves exactly
\* one reconnect timeout pending; with phase Online and activity within the
\* threshold it changes nothing.
C13_StaleSweepRecycles ==
    [][(HealthSweep /\ isRunning /\ botStatus = "online") =>
          IF now - lastBotEventAt > staleThreshold
          THEN /\ bot # NULL
               /\ bot' = NULL
               /\ \A c \in DOMAIN clients' :
                     clients'[c].quit /\ ~clients'[c].listeners
               /\ ~pingTimer'
               /\ serverStatus' = "unknown"
               /\ reconnectTimer' # NULL
               /\ reconnectTimeouts' = 1
          ELSE UNCHANGED lifeVars]_vars

\* The sweep has just recycled a stale connection: no instance is held, the
\* last activity is older than the threshold and the reconnect was queued
\* at this instant.
C13_Witness ==
    /\ isRunning
    /\ bot = NULL
    /\ clients # <<>>
    /\ now - lastBotEventAt > staleThreshold
    /\ serverStatus = "unknown"
    /\ ~pingTimer
    /\ reconnectTimer = now + RECONNECT_DELAY

\* Nothing more can be counted within the bounds of the model.
Exhausted == reconnectAttempts >= MaxAttempts

Attempted == result.op = "reconnect" /\ result.success

\* C14 as stated: whenever desired is Running and the phase is not online,
\* eventually a reconnect callback runs createBot or desired is NotRunning
\* (or the attempt counter has reached the bound of the model).
C14_RetriedOrStopped ==
    (isRunning /\ botStatus # "online")
        ~> (Attempted \/ ~isRunning \/ Exhausted)

\* C14: with timers fired fairly, whenever desired is Running and the phase
\* is not online, eventually a reconnect callback runs createBot, or the
\* phase is online, or desired is NotRunning (or the attempt counter has
\* reached the bound of the model); and while desired is Running the health
\* sweep is armed and the phase is connecting, error or online.
C14_RetriedOnlineOrStopped ==
    /\ (isRunning /\ botStatus # "online")
          ~> (Attempted \/ botStatus = "online" \/ ~isRunning \/ Exhausted)
    /\ [](isRunning =>
             healthTimer /\ botStatus \in {"connecting", "error", "online"})

\* A reconnect callback has just made the second attempt of a run: its
\* client is connecting, time having passed since the first.
C14_Witness ==
    /\ Attempted
    /\ isRunning
    /\ now > 0
    /\ botStatus = "connecting"
    /\ bot = 2
    /\ reconnectTimer = NULL
    /\ ~Exhausted

ControlCallOps == {"start", "stop", "restart"}

C20_LoginBringsOnline ==
    /\ [][\A c \in DOMAIN clients :
             ClientLogin(c) =>
                /\ c = bot
                /\ clients[c].state = "connecting"
                /\ clients'[c].state = "play"
                /\ botStatus' = "online"
                /\ serverStatus' = "online"
                /\ reconnectAttempts' = 0
                /\ lastBotEventAt' = now
                /\ lastPing' = now
                /\ pingTimer']_vars
    /\ [][\A c \in DOMAIN clients :
             clients[c].state # "connecting" =>
                /\ c \in DOMAIN clients'
                /\ clients'[c].state # "connecting"]_vars

\* The second client, created by a reconnect, has logged in: the phase is
\* online and the attempt counter is back at 0.
C20_Witness ==
    /\ isRunning
    /\ now > 0
    /\ bot = 2
    /\ clients[2].state = "play"
    /\ botStatus = "online"
    /\ serverStatus = "online"
    /\ reconnectAttempts = 0
    /\ lastBotEventAt = now
    /\ pingTimer

\* What a Start that is accepted leaves behind whether or not the client
\* could be created.
StartAccepted ==
    /\ isRunning'
    /\ result' = [op |-> "start", success |-> TRUE]
    /\ lastBotEventAt' = now
    /\ botStartTime' = NULL
    /\ keepAlivePulseCount' = 0
    /\ healthTimer'
    /\ ~pingTimer'
    /\ serverStatus' = "unknown"

StartConnected ==
    /\ botStatus' = "connecting"
    /\ reconnectAttempts' = 0
    /\ bot' = Len(clients) + 1
    /\ clients' = Append(clients, NewClient)
    /\ reconnectTimer' = NULL
    /\ reconnectTimeouts' = 0

StartQueued ==
    /\ bot' = NULL
    /\ clients' = clients
    /\ reconnectAttempts' = 1
    /\ reconnectTimer' = now + config.reconnectDelay
    /\ reconnectTimeouts' = 1

\* C21 as stated: a Start called while desired is NotRunning answers
\* success, sets desired Running and refreshes the activity timestamp; when
\* the client is created the phase is connecting with the attempt counter at
\* 0, and when its creation throws the phase is error with one reconnect
\* queued.
C21_StartFailureLeavesErrorPhase ==
    [][\A ok \in BOOLEAN :
          (StartCall(ok) /\ ~isRunning) =>
             /\ StartAccepted
             /\ IF ok THEN StartConnected
                ELSE StartQueued /\ botStatus' = "error"]_vars

\* C21: a Start called while desired is NotRunning answers success, sets
\* desired Running, refreshes the activity timestamp and arms the health
\* sweep; when the client is created it is held, the phase is connecting,
\* the attempt counter is 0 and no reconnect is pending; when its creation
\* throws, no client is held, the phase is connecting all the same, and
\* exactly one reconnect is queued, counted as attempt 1.
C21_StartAttemptsConnection ==
    [][\A ok \in BOOLEAN :
          (StartCall(ok) /\ ~isRunning) =>
             /\ StartAccepted
             /\ botStatus' = "connecting"
             /\ IF ok THEN StartConnected ELSE StartQueued]_vars

\* A Start, called after time has passed and a first run was stopped, has
\* just answered success although the client could not be created.
C21_Witness ==
    /\ result = [op |-> "start", success |-> TRUE]
    /\ isRunning
    /\ now > 0
    /\ clients # <<>>
    /\ bot = NULL
    /\ botStatus = "connecting"
    /\ reconnectAttempts = 1
    /\ reconnectTimer = now + RECONNECT_DELAY
    /\ reconnectTimeouts = 1

\* The clients that existed before the step are all quit, their listeners
\* detached, after it.
OldClientsDiscarded ==
    \A c \in DOMAIN clients :
       /\ c \in DOMAIN clients'
       /\ clients'[c].quit
       /\ ~clients'[c].listeners

\* C22 as stated: a reconnect callback that runs while desired is Running
\* makes an attempt, discards the old client first and leaves the attempt
\* counter one higher than it found it.
C22_FiringIncrementsCounter ==
    [][\A ok \in BOOLEAN :
          (ReconnectTimerFire(ok) /\ isRunning) =>
             /\ OldClientsDiscarded
             /\ reconnectAttempts' = reconnectAttempts + 1]_vars

\* C22: a reconnect is pending only while desired is Running, and it has
\* been counted: the counter went up by one in the step that queued it.  The
\* callback that runs it discards every older client, listeners detached;
\* when the new client is created it is held, the phase is connecting, no
\* reconnect is pending and the counter is as the callback found it; when
\* its creation throws, no client is held and the next reconnect is queued
\* and counted.  createBot called with desired NotRunning changes nothing.
\* The counter only ever changes by going up by one, or to 0 at a login, or
\* to 0 (1 when the client cannot be created) at an accepted Start.
C22_ReconnectAttemptCounted ==
    /\ [](/\ reconnectTimer # NULL => isRunning
          /\ \A ok \in BOOLEAN :
                createBot([L EXCEPT !.isRunning = FALSE], ok)
                    = [L EXCEPT !.isRunning = FALSE])
    /\ [][(reconnectTimer = NULL /\ reconnectTimer' # NULL) =>
             reconnectAttempts' =
                 (IF isRunning THEN reconnectAttempts ELSE 0) + 1]_vars
    /\ [][\A ok \in BOOLEAN :
             ReconnectTimerFire(ok) =>
                /\ isRunning /\ isRunning'
                /\ OldClientsDiscarded
                /\ botStatus' = "connecting"
                /\ serverStatus' = "unknown"
                /\ IF ok
                   THEN /\ clients' # clients
                        /\ bot' = Len(clients) + 1
                        /\ clients'[bot'] = NewClient
                        /\ reconnectTimer' = NULL
                        /\ reconnectAttempts' = reconnectAttempts
                   ELSE /\ bot' = NULL
                        /\ Len(clients') = Len(clients)
                        /\ reconnectTimer' = now + config.reconnectDelay
                        /\ reconnectAttempts' = reconnectAttempts + 1]_vars
    /\ [][reconnectAttempts' # reconnectAttempts =>
             \/ reconnectAttempts' = reconnectAttempts + 1
             \/ /\ reconnectAttempts' = 0
                /\ \E c \in DOMAIN clients : ClientLogin(c)
             \/ /\ reconnectAttempts' \in {0, 1}
                /\ ~isRunning /\ isRunning']_vars

\* The reconnect callback has just created the second client of the run,
\* the first one quit, with the counter at the 1 it was queued with.
C22_Witness ==
    /\ result = [op |-> "reconnect", success |-> TRUE]
    /\ isRunning
    /\ bot = 2
    /\ clients[1].quit /\ ~clients[1].listeners
    /\ clients[2] = NewClient
    /\ reconnectAttempts = 1
    /\ reconnectTimer = NULL

\* C23: the health interval is armed exactly while desired is Running; it
\* is armed only by the step that turns desired Running and cleared only by
\* the step that turns it NotRunning; a sweep that finds the phase error or
\* connecting queues one reconnect, counted once, and changes nothing else
\* when none is pending, and changes nothing at all when one is pending.
C23_SweepWhileRunning ==
    /\ [](healthTimer = isRunning)
    /\ [][healthTimer' # healthTimer =>
             \/ healthTimer' /\ ~isRunning /\ isRunning'
             \/ ~healthTimer' /\ isRunning /\ ~isRunning']_vars
    /\ [][(HealthSweep /\ botStatus \in {"error", "connecting"}) =>
             IF reconnectTimer = NULL
             THEN L' = [L EXCEPT
                           !.reconnectAttempts = @ + 1,
                           !.botStatus = "connecting",
                           !.reconnectTimer = now + config.reconnectDelay,
                           !.reconnectTimeouts = 1]
             ELSE UNCHANGED lifeVars]_vars

\* A client that has been connecting since Start, silent while time passed,
\* and the reconnect a sweep has just queued for it.
C23_Witness ==
    /\ isRunning
    /\ healthTimer
    /\ bot # NULL
    /\ clients[bot].state = "connecting"
    /\ botStatus = "connecting"
    /\ lastBotEventAt < now
    /\ reconnectTimer = now + RECONNECT_DELAY
    /\ reconnectTimeouts = 1
    /\ reconnectAttempts = 1

\* C24: the keep-alive interval is armed only while the phase is online,
\* and a step that takes the phase out of online leaves it cleared; a step
\* of the keep-alive callback changes neither phase, reachability, desired
\* state, attempt counter nor reconnect timer; a callback that fails changes
\* nothing at all and logs a warning; one that succeeds leaves the activity
\* timestamp at the present, counts one more pulse and appends exactly one
\* PING entry when that count is a multiple of five, and none otherwise.
C24_PulseLeavesPhaseAlone ==
    /\ [](pingTimer => botStatus = "online")
    /\ [][(botStatus = "online" /\ botStatus' # "online") => ~pingTimer']_vars
    /\ [][\A ok \in BOOLEAN :
             PulseUpTo(ok, PulseCap) =>
                UNCHANGED <<botStatus, serverStatus, isRunning,
                            reconnectAttempts, reconnectTimer,
                            reconnectTimeouts, bot, clients>>]_vars
    /\ [](pingTimer =>
             /\ pulse(L, FALSE) = L
             /\ pulseLog(L, FALSE) = <<"WARNING">>
             /\ pulse(L, TRUE) =
                   [L EXCEPT !.lastBotEventAt = now, !.lastPing = now,
                             !.keepAlivePulseCount = @ + 1]
             /\ pulseLog(L, TRUE) =
                   IF pulse(L, TRUE).keepAlivePulseCount
                          \in {PING_LOG_EVERY * k : k \in 1..(MaxPulses + 1)}
                   THEN <<"PING">> ELSE <<>>)

\* The fifth pulse since Start has just succeeded, time having passed since
\* the login.
C24_Witness ==
    /\ pingTimer
    /\ botStatus = "online"
    /\ keepAlivePulseCount = PING_LOG_EVERY
    /\ now > 0
    /\ lastBotEventAt = now
    /\ lastPing = now

\* C25: the session-start timestamp changes only in two ways: to none, in
\* the step that turns desired from NotRunning to Running, and from none to
\* the present, in a step in which a client's login handler runs; so once
\* set it stays as it is through failures, reconnects, recycling and later
\* logins until the next accepted Start.
C25_SessionStartKept ==
    /\ [][botStartTime' # botStartTime =>
             \/ botStartTime' = NULL /\ ~isRunning /\ isRunning'
             \/ /\ botStartTime = NULL
                /\ botStartTime' = now
                /\ \E c \in DOMAIN clients : ClientLogin(c)]_vars
    /\ [][(~isRunning /\ isRunning') => botStartTime' = NULL]_vars
    /\ [][\A c \in DOMAIN clients :
             ClientLogin(c) =>
                botStartTime' = IF botStartTime = NULL THEN now
                                ELSE botStartTime]_vars

\* The second client of a run has logged in, later than the first did: the
\* session-start timestamp is still that of the first login.
C25_Witness ==
    /\ isRunning
    /\ bot = 2
    /\ clients[2].state = "play"
    /\ botStatus = "online"
    /\ lastBotEventAt = now
    /\ botStartTime # NULL
    /\ botStartTime < now

\* C27: while the phase is online no reconnect is pending, and no reconnect
\* callback runs on a connection whose phase is online.
C27_OnlineHasNoReconnectPending ==
    /\ [](botStatus = "online" => reconnectTimer = NULL)
    /\ [][\A ok \in BOOLEAN :
             ReconnectTimerFire(ok) => botStatus # "online"]_vars

\* C29: in every state between handlers, desired NotRunning goes with phase
\* stopped, reachability unknown, no client held and no reconnect,
\* keep-alive or health timer; desired Running goes with phase connecting,
\* online or error and the health timer armed; and phase online goes with
\* a client held.
C29_DesiredAndPhaseAgree ==
    /\ ~isRunning =>
          /\ botStatus = "stopped"
          /\ serverStatus = "unknown"
          /\ bot = NULL
          /\ LiveClients = {}
          /\ reconnectTimer = NULL
          /\ reconnectTimeouts = 0
          /\ ~pingTimer
          /\ ~healthTimer
    /\ isRunning =>
          /\ botStatus \in {"connecting", "online", "error"}
          /\ healthTimer
    /\ botStatus = "online" => bot # NULL /\ ~clients[bot].quit

\* A run that had logged in has been stopped, time having passed.
C29_Witness ==
    /\ ~isRunning
    /\ sinceStop = "stopped"
    /\ botStartTime # NULL
    /\ now > 0
    /\ clients # <<>>
    /\ botStatus = "stopped"

\* ------------------------------------------------------------------------
\* Properties of the user store and its sessions
\* ------------------------------------------------------------------------
SessionsOf(ss, userId) == {h \in DOMAIN ss : ss[h].userId = userId}

\* C4: whenever an update changes a user's stored role or token, whatever it
\* answers, no session issued to that user is left in the store.
C4_RoleOrTokenChangeRevokes ==
    [][\A i \in DOMAIN users :
          (/\ i \in DOMAIN users'
           /\ users'[i].id = users[i].id
           /\ \/ users'[i].role # users[i].role
              \/ users'[i].token # users[i].token)
          => SessionsOf(sessions', users[i].id) = {}]_vars

\* The user named by id is the only admin.
LastAdmin(id) ==
    /\ adminCount(users) = 1
    /\ \E i \in DOMAIN users : users[i].id = id /\ users[i].role = "admin"

Rejected == {400, 401, 403}

\* C5: once the list is loaded it always holds at least one admin, and any
\* request to delete the last admin or to give it another role is rejected
\* and leaves the list as it was.
C5_AdminAlwaysRemains ==
    /\ booted => adminCount(users) >= 1
    /\ \A h \in Handles, id \in UserIds :
          LastAdmin(id) =>
             /\ deleteUser(A, h, id).a.users = users
             /\ deleteUser(A, h, id).resp.status \in Rejected
             /\ \A body \in PatchBodies, gen \in Tokens :
                   body.role \in VALID_ROLES \ {"admin"} =>
                      /\ patchUser(A, h, id, body, gen).a.users = users
                      /\ patchUser(A, h, id, body, gen).resp.status \in Rejected

\* A single admin, with a session that passes the users:write gate, beside
\* another user.
C5_Witness ==
    /\ adminCount(users) = 1
    /\ Len(users) >= 2
    /\ \E h \in DOMAIN sessions : Gate(A, h, "users:write").status = 0

\* C6: after loadConfig the list holds at least one admin, whatever list was
\* persisted.
C6_AdminAfterLoad == booted => adminCount(users) >= 1

\* C7: every resolve that returns a session leaves that session expiring
\* exactly one session lifetime after the present, which is later than the
\* present; and whenever a stored session's expiry changes, it changes to
\* that value, the clock standing still.
C7_ResolveSlidesExpiry ==
    /\ [](\A h \in Handles :
             LET r == resolveAuthFromToken(A, h)
             IN r.user # 0 =>
                   /\ r.a.sessions[h].expiresAt = now + SESSION_TTL_MS
                   /\ r.a.sessions[h].expiresAt > now)
    /\ [][\A h \in DOMAIN sessions :
             (/\ h \in DOMAIN sessions'
              /\ sessions'[h].expiresAt # sessions[h].expiresAt) =>
                 /\ now' = now
                 /\ sessions'[h].expiresAt = now + SESSION_TTL_MS]_vars

\* A session issued before another one, at an earlier time than the present,
\* that expires a full lifetime from now while the later one does not.
C7_Witness ==
    \E h, h2 \in DOMAIN sessions :
        /\ h < h2
        /\ now > 0
        /\ sessions[h].expiresAt = now + SESSION_TTL_MS
        /\ sessions[h2].expiresAt < now + SESSION_TTL_MS

\* C8: a resolve returns a session only if it has not expired and its user
\* exists; a resolve that returns none leaves the handle out of the store;
\* and a handle that has left the store never comes back, so no later
\* resolve of it succeeds.
C8_NoStaleSessionResolves ==
    /\ [](\A h \in Handles :
             LET r == resolveAuthFromToken(A, h)
             IN /\ r.user # 0 =>
                      /\ h \in DOMAIN sessions
                      /\ sessions[h].expiresAt > now
                      /\ findUserById(A, sessions[h].userId) = r.user
                /\ r.user = 0 => h \notin DOMAIN r.a.sessions)
    /\ [][\A h \in 1..(nextHandle - 1) :
             h \notin DOMAIN sessions => h \notin DOMAIN sessions']_vars

\* An issued handle has left the store while a session that has expired is
\* still in it: nothing swept the store since the expiry.
C8_Witness ==
    /\ \E h \in 1..(nextHandle - 1) : h \notin DOMAIN sessions
    /\ \E h \in DOMAIN sessions : sessions[h].expiresAt <= now

\* C16: a login whose token, once trimmed, is held by no user is answered
\* 401 (400 when nothing is left of it), adds no session and changes no
\* user; a login whose token a user holds is answered 200 with the
\* permissions of that user's role and adds exactly one session, under a
\* handle not in the store before, owned by that user and expiring one
\* session lifetime from now, every other session and every user staying as
\* it was; and a step adds at most one session to the store, always with
\* that expiry and an existing owner.
C16_LoginIssuesOneSession ==
    /\ [](\A rawToken \in BodyTokens \cup Tokens :
             LET q == login(A, rawToken)
                 token == Trim(rawToken)
                 owners == {i \in DOMAIN users : users[i].token = token}
             IN IF token = "" THEN q.resp.status = 400 /\ q.a = A
                ELSE IF owners = {} THEN q.resp.status = 401 /\ q.a = A
                ELSE \E i \in owners :
                        /\ q.resp.status = 200
                        /\ q.resp.perms = getPermissions(users[i].role)
                        /\ q.a.users = users
                        /\ q.resp.session \notin DOMAIN sessions
                        /\ DOMAIN q.a.sessions =
                               DOMAIN sessions \cup {q.resp.session}
                        /\ \A h \in DOMAIN sessions :
                               q.a.sessions[h] = sessions[h]
                        /\ q.a.sessions[q.resp.session] =
                               [userId |-> users[i].id,
                                expiresAt |-> now + SESSION_TTL_MS])
    /\ [][/\ Cardinality(DOMAIN sessions' \ DOMAIN sessions) <= 1
          /\ \A h \in DOMAIN sessions' \ DOMAIN sessions :
                /\ users' = users
                /\ sessions'[h].expiresAt = now + SESSION_TTL_MS
                /\ \E i \in DOMAIN users : users[i].id = sessions'[h].userId
         ]_vars

\* Time has passed since boot, the latest handle issued is a session of an
\* existing user that expires a lifetime from now, next to an older one that
\* expires sooner, and a token that can be sent matches no user.
C16_Witness ==
    /\ now > 0
    /\ login(A, "t3").resp.status = 401
    /\ nextHandle - 1 \in DOMAIN sessions
    /\ sessions[nextHandle - 1].expiresAt = now + SESSION_TTL_MS
    /\ findUserById(A, sessions[nextHandle - 1].userId) # 0
    /\ \E h \in DOMAIN sessions : sessions[h].expiresAt < now + SESSION_TTL_MS

\* C17: a PATCH /api/users/:id that is answered 404, 400 or 409 leaves every
\* user record as it was and removes no session from the store.
C17_RejectedPatchChangesNothing ==
    \A h \in Handles, id \in UserIds, body \in PatchBodies :
       LET q == patchUser(A, h, id, body, "t1")
       IN q.resp.status \in {400, 404, 409} =>
             /\ q.a.users = users
             /\ DOMAIN q.a.sessions = DOMAIN sessions

TokenBody(token) ==
    [name |-> "", role |-> "none", token |-> token, rotateToken |-> FALSE]

NamedBody(token) == [name |-> " n1 ", role |-> "viewer", token |-> token]

\* C26: no two users hold the same token; a create that reaches its handler
\* with a name is answered 409 and adds no user exactly when the token it
\* supplies (or the one generated for it) is held by a user, and 200
\* otherwise; an update is answered 409 only when the token it supplies is
\* held by another user, and then the target keeps its token; an update that
\* is accepted with a token leaves the target holding it, no other user
\* holding it; and an update that supplies the target's own token is never
\* answered 409.
C26_TokensStayDistinct ==
    /\ \A i, j \in DOMAIN users : i # j => users[i].token # users[j].token
    /\ \A h \in Handles, raw0 \in BodyTokens, gen \in Tokens :
          LET q == createUser(A, h, NamedBody(raw0), gen)
              token == IF Trim(raw0) # "" THEN Trim(raw0) ELSE gen
              held == \E i \in DOMAIN users : users[i].token = token
          IN Gate(A, h, "users:write").status = 0 =>
                /\ q.resp.status = IF held THEN 409 ELSE 200
                /\ held => q.a.users = users
                /\ ~held => /\ Len(q.a.users) = Len(users) + 1
                            /\ q.a.users[Len(users) + 1].token = token
    /\ \A h \in Handles, id \in UserIds, raw0 \in BodyTokens \ {""} :
          LET q == patchUser(A, h, id, TokenBody(raw0), "t1")
              token == Trim(raw0)
              t == findUserById(A, id)
          IN /\ q.resp.status = 409 =>
                   /\ TokenTaken(users, id, token)
                   /\ q.a.users[t].token = users[t].token
             /\ q.resp.status = 200 =>
                   /\ ~TokenTaken(users, id, token)
                   /\ q.a.users[t].token = token
             /\ (t # 0 /\ users[t].token = token) => q.resp.status # 409
             /\ (t # 0 /\ Gate(A, h, "users:write").status = 0
                    /\ TokenTaken(users, id, token)) => q.resp.status = 409

\* A user holds a token given through the API; a session is held by an
\* admin whose create with that token is answered 409 and whose update of
\* that user with the user's own token is answered 200.
C26_Witness ==
    \E i \in DOMAIN users, h \in DOMAIN sessions :
       /\ Len(users) >= 2
       /\ users[i].token = "t3"
       /\ createUser(A, h, NamedBody("t3"), "t1").resp.status = 409
       /\ patchUser(A, h, users[i].id, TokenBody("t3"), "t1").resp.status = 200

\* ------------------------------------------------------------------------
\* Properties of the gate and the realtime channel
\* ------------------------------------------------------------------------

\* The permission set of the role the user with this id has now.
CurrentPermissions(userId) ==
    IF findUserById(A, userId) = 0 THEN {}
    ELSE getPermissions(users[findUserById(A, userId)].role)

RoleBody(role) ==
    [name |-> "", role |-> role, token |-> "", rotateToken |-> FALSE]

\* C15: a request whose handle does not resolve is answered 401 (a realtime
\* connection is refused), whatever it asks for; one whose session resolves
\* to a role without the capability of the route is answered 403; any other
\* reaches its handler; a request answered 401 or 403 leaves the users, the
\* settings and the connection record as they were; and the connection
\* record or the settings only ever change while some session or admitted
\* connection holds the capability for it.
C15_GateBeforeHandler ==
    /\ [](\A h \in Handles :
             LET r == resolveAuthFromToken(A, h)
                 perms == IF r.user = 0 THEN {}
                          ELSE getPermissions(r.a.users[r.user].role)
                 Expected(permission) ==
                     IF r.user = 0 THEN 401
                     ELSE IF permission \notin perms THEN 403 ELSE 200
             IN /\ \A op \in ControlOps, ok \in BOOLEAN :
                      LET q == controlRequest(A, L, h, op, ok)
                      IN /\ q.status = Expected("bot:control")
                         /\ q.status # 200 => q.s = L /\ q.a.users = users
                /\ \A body \in ConfigBodies :
                      LET q == configRequest(A, config, h, body)
                      IN /\ q.status = Expected("config:write")
                         /\ q.status # 200 =>
                                q.config = config /\ q.a.users = users
                /\ \A id \in UserIds, role \in VALID_ROLES :
                      LET q == patchUser(A, h, id, RoleBody(role), "t1")
                      IN /\ Expected("users:write") # 200 =>
                                /\ q.resp.status = Expected("users:write")
                                /\ q.a.users = users
                         /\ q.resp.status \in {401, 403} =>
                                Expected("users:write") # 200
                /\ me(A, h).resp.status = IF r.user = 0 THEN 401 ELSE 200
                /\ wsConnect(A, h).admitted = (r.user # 0)
                /\ wsConnect(A, h).a.users = users
                /\ r.user = 0 => /\ wsConnect(A, h).sent = "error"
                                 /\ ~wsConnect(A, h).socket.open)
    /\ [][/\ lifeVars' # lifeVars =>
                \/ \E h \in DOMAIN sessions :
                      "bot:control" \in CurrentPermissions(sessions[h].userId)
                \/ \E k \in DOMAIN sockets :
                      "bot:control" \in sockets[k].permissions
          /\ config' # config =>
                \E h \in DOMAIN sessions :
                   "config:write" \in CurrentPermissions(sessions[h].userId)
         ]_vars

\* The bot runs and the settings were rewritten, both by permitted
\* requests, while a session is held whose role lacks the control capability.
C15_Witness ==
    /\ isRunning
    /\ config # DEFAULT_CONFIG
    /\ \E h \in DOMAIN sessions : Gate(A, h, "bot:control").status = 403

\* C18: a start, stop or restart message from a connection whose user lacks
\* the control capability changes no connection state and is answered with
\* an error; one from a connection whose user holds it is answered with the
\* result of the operation.
C18_MessageCheckedAgainstCapability ==
    [][\A k \in DOMAIN sockets, action \in ControlOps :
          WsMessage(k, action, TRUE) =>
             IF "bot:control" \in CurrentPermissions(sockets[k].user)
             THEN wsMessage(L, sockets[k], action, TRUE).sent = "actionResult"
             ELSE /\ UNCHANGED lifeVars
                  /\ wsMessage(L, sockets[k], action, TRUE).sent = "error"
      ]_vars

\* The user a bearer handle stands for holds the control capability now.
MayControl(h) ==
    /\ h \in DOMAIN sessions
    /\ "bot:control" \in CurrentPermissions(sessions[h].userId)

\* C28: a start, stop or restart issued over HTTP with a handle whose user
\* does not hold the control capability now, or over a realtime connection
\* whose user does not hold it now (the role was changed, or the user was
\* deleted, since the connection was admitted), leaves the connection
\* record as it was.
C28_RevokedUserCannotControl ==
    [][\A op \in ControlOps :
          /\ \A h \in Handles :
                (ControlRequest(h, op, TRUE) /\ ~MayControl(h)) =>
                    UNCHANGED lifeVars
          /\ \A k \in DOMAIN sockets :
                (/\ WsMessage(k, op, TRUE)
                 /\ "bot:control" \notin CurrentPermissions(sockets[k].user))
                    => UNCHANGED lifeVars]_vars

\* ------------------------------------------------------------------------
\* Properties of the event log
\* ------------------------------------------------------------------------

\* C9: the buffer never holds more than MAX_LOGS entries; it holds the most
\* recent ones in the order they were added, so the oldest is the one
\* evicted; and what GET /api/logs returns for a limit of MAX_LOGS or more
\* is the whole buffer, the last MAX_LOGS entries once that many were added.
C9_LogBufferBounded ==
    /\ Len(logs) <= MAX_LOGS
    /\ Len(logs) = Min(logSeq, MAX_LOGS)
    /\ \A i \in DOMAIN logs : logs[i].id = logSeq - Len(logs) + i
    /\ recent(logs, MAX_LOGS) = logs
    /\ recent(logs, MAX_LOGS + 1) = logs
    /\ \A limit \in Limits :
          LET k == Min(toPositiveInt(limit, DEFAULT_LIMIT), Len(logs))
          IN recent(logs, limit) = [i \in 1..k |-> logs[Len(logs) - k + i]]

\* More entries were added than the buffer holds, and a request for MAX_LOGS
\* of them has just been answered.
C9_Witness ==
    /\ logSeq > MAX_LOGS
    /\ Len(logsResp) = MAX_LOGS
    /\ logsResp[1].id = logSeq - MAX_LOGS + 1

====
